---- MODULE Spec2Model ----
(***************************************************************************)
(* Model of examples/plot.py: a script that checks its argument list,      *)
(* reads a text file, parses three numeric columns from every line after   *)
(* the first and hands them to two plot calls followed by show.            *)
(*                                                                         *)
(* Text is modelled as sequences of one-character strings, so that strip,  *)
(* split(" ") and float are computed character by character.               *)
(***************************************************************************)
EXTENDS Integers, Sequences, FiniteSets, TLC

VARIABLES argv, pc, f, content, lines, impl_domain, impl_range,
          plots, stdout, err, trace

vars == <<argv, pc, f, content, lines, impl_domain, impl_range,
          plots, stdout, err, trace>>

----------------------------------------------------------------------------
(* Bounds of the model *)

\* longest argument list considered (program name included)
MaxArgv == 3
\* largest number of lines in the input file
MaxLines == 3

----------------------------------------------------------------------------
(* Characters and text *)

SP == " "
TAB == "\t"
NL == "\n"

\* characters removed by str.strip() and tolerated around a number by float()
Whitespace == {SP, TAB, NL}

Digits == <<"0", "1", "2", "3", "4", "5", "6", "7", "8", "9">>

IsDigit(c) == \E i \in 1..Len(Digits) : Digits[i] = c

DigitVal(c) == (CHOOSE i \in 1..Len(Digits) : Digits[i] = c) - 1

\* line.strip(): drop leading and trailing whitespace
RECURSIVE LStrip(_)
LStrip(s) ==
    IF s # <<>> /\ Head(s) \in Whitespace THEN LStrip(Tail(s)) ELSE s

RECURSIVE RStrip(_)
RStrip(s) ==
    IF s # <<>> /\ s[Len(s)] \in Whitespace
    THEN RStrip(SubSeq(s, 1, Len(s) - 1))
    ELSE s

Strip(s) == LStrip(RStrip(s))

\* x.split(" "): cut at every single space; consecutive spaces give empty
\* tokens, other whitespace does not separate, "" gives one empty token
RECURSIVE Split(_)
Split(s) ==
    IF \E i \in 1..Len(s) : s[i] = SP
    THEN LET i == CHOOSE j \in 1..Len(s) :
                      s[j] = SP /\ \A k \in 1..(j - 1) : s[k] # SP
         IN  <<SubSeq(s, 1, i - 1)>> \o Split(SubSeq(s, i + 1, Len(s)))
    ELSE <<s>>

RECURSIVE Decimal(_)
Decimal(ds) ==
    IF ds = <<>> THEN 0
    ELSE 10 * Decimal(SubSeq(ds, 1, Len(ds) - 1)) + DigitVal(ds[Len(ds)])

AllDigits(ds) == ds # <<>> /\ \A i \in 1..Len(ds) : IsDigit(ds[i])

\* float(tok): surrounding whitespace is ignored, then an optional minus sign
\* and a non-empty run of digits; every other text over the characters used
\* here (empty, a lone sign, letters, inner whitespace) raises ValueError.
\* Fractions, exponents, "+", inf and nan are outside the modelled alphabet.
Float(tok) ==
    LET s == Strip(tok)
        neg == s # <<>> /\ Head(s) = "-"
        ds == IF neg THEN Tail(s) ELSE s
    IN  IF AllDigits(ds)
        THEN [ok |-> TRUE, val |-> IF neg THEN 0 - Decimal(ds) ELSE Decimal(ds)]
        ELSE [ok |-> FALSE, val |-> 0]

----------------------------------------------------------------------------
(* Column construction *)

\* index (1-based) of the token each list comprehension reads
DomainIndex == 1
RangeAIndex == 2
RangeBIndexSameAsA == RangeAIndex
RangeBIndex == 3

\* lines[1:] : every line but the first; empty for an empty list
DataLinesAll(ls) == ls
DataLines(ls) == IF ls = <<>> THEN <<>> ELSE Tail(ls)

\* float(x.split(" ")[k-1]) for one line
FieldSkipShort(x, k) ==
    LET toks == Split(x)
    IN  IF Len(toks) < k THEN [ok |-> TRUE, err |-> "none", val |-> 0]
        ELSE IF ~Float(toks[k]).ok THEN [ok |-> FALSE, err |-> "ValueError", val |-> 0]
        ELSE [ok |-> TRUE, err |-> "none", val |-> Float(toks[k]).val]
Field(x, k) ==
    LET toks == Split(x)
    IN  IF Len(toks) < k THEN [ok |-> FALSE, err |-> "IndexError", val |-> 0]
        ELSE IF ~Float(toks[k]).ok THEN [ok |-> FALSE, err |-> "ValueError", val |-> 0]
        ELSE [ok |-> TRUE, err |-> "none", val |-> Float(toks[k]).val]

\* [float(x.split(" ")[k-1]) for x in lines[1:]] : the values in line order,
\* or the exception raised by the first line that fails
ColumnNeedsHeader(ls, k) ==
    LET ds == DataLines(ls)
        bad == {i \in 1..Len(ds) : ~Field(ds[i], k).ok}
    IN  IF ls = <<>>
        THEN [ok |-> FALSE, err |-> "IndexError", vals |-> <<>>]
        ELSE IF bad = {}
        THEN [ok |-> TRUE, err |-> "none",
              vals |-> [i \in 1..Len(ds) |-> Field(ds[i], k).val]]
        ELSE LET first == CHOOSE i \in bad : \A j \in bad : i <= j
             IN  [ok |-> FALSE, err |-> Field(ds[first], k).err, vals |-> <<>>]
Column(ls, k) ==
    LET ds == DataLines(ls)
        bad == {i \in 1..Len(ds) : ~Field(ds[i], k).ok}
    IN  IF bad = {}
        THEN [ok |-> TRUE, err |-> "none",
              vals |-> [i \in 1..Len(ds) |-> Field(ds[i], k).val]]
        ELSE LET first == CHOOSE i \in bad : \A j \in bad : i <= j
             IN  [ok |-> FALSE, err |-> Field(ds[first], k).err, vals |-> <<>>]

----------------------------------------------------------------------------
(* Environment: the argument list and the file system *)

ProgName == "plot.py"

\* paths an argument may name
Paths == {"data.txt", "missing.txt", "secret.txt"}
\* paths open() succeeds on; the others raise FileNotFoundError or
\* PermissionError
Readable == {"data.txt"}
Existing == {"data.txt", "secret.txt"}

SeqsUpTo(S, n) == UNION {[1..k -> S] : k \in 0..n}

\* sys.argv: the program name followed by the positional arguments
ArgLists == {<<ProgName>> \o a : a \in SeqsUpTo(Paths, MaxArgv - 1)}

\* line texts the input file is made of (without the line terminator)
LineBodies ==
    { <<"0", SP, "1", SP, "2">>,
      <<"1", SP, "2", SP, "4">>,
      <<"2", SP, "3", SP, "8">>,
      <<"1", SP, "2">>,
      <<"x", SP, "y", SP, "z">>,
      <<"1", SP, "2", SP, "x">>,
      <<"1", SP, SP, "2", SP, "3">>,
      <<"1", TAB, "2", TAB, "3">>,
      <<"1", SP, "2", SP, "3", SP, "x">>,
      <<SP, "-", "1", SP, "2", SP, "3", "0", SP>>,
      <<>> }

\* what f.readlines() can return: every line keeps its terminator, except
\* that the last line of the file may lack one
FileContents ==
    {[i \in 1..Len(bs) |-> IF i < Len(bs) \/ t \/ bs[i] = <<>>
                           THEN bs[i] \o <<NL>> ELSE bs[i]] :
        bs \in SeqsUpTo(LineBodies, MaxLines), t \in BOOLEAN}

----------------------------------------------------------------------------
(* The script, one action per statement *)

Init ==
    /\ argv \in ArgLists
    /\ pc = "args"
    /\ f = "none"
    /\ content = <<>>
    /\ lines = <<>>
    /\ impl_domain = <<>>
    /\ impl_range = <<>>
    /\ plots = <<>>
    /\ stdout = <<>>
    /\ err = "none"
    /\ trace = <<>>

\* len(sys.argv) == 1 or len(sys.argv) > 2
ArgCountBadOnlyNone(a) == Len(a) = 1
ArgCountBad(a) == Len(a) = 1 \/ Len(a) > 2

\* lines 5-7: print the usage message and exit(), or fall through
CheckArgs ==
    /\ pc = "args"
    /\ IF ArgCountBad(argv)
       THEN /\ stdout' = Append(stdout, <<"usage:", argv[1], "<filename>">>)
            /\ pc' = "usage_exit"
            /\ trace' = Append(trace, "usage")
       ELSE /\ pc' = "open"
            /\ UNCHANGED <<stdout, trace>>
    /\ UNCHANGED <<argv, f, content, lines, impl_domain, impl_range, plots, err>>

\* the exception open(path) raises, "none" when it succeeds
OpenErrorNever(path) == "none"
OpenError(path) ==
    IF path \in Readable THEN "none"
    ELSE IF path \in Existing THEN "PermissionError"
    ELSE "FileNotFoundError"

\* line 11: f=open(sys.argv[1])
Open ==
    /\ pc = "open"
    /\ IF OpenError(argv[2]) = "none"
       THEN /\ f' = "open"
            /\ pc' = "read"
            /\ trace' = Append(trace, "open")
            /\ UNCHANGED err
       ELSE /\ pc' = "error"
            /\ err' = OpenError(argv[2])
            /\ UNCHANGED <<f, trace>>
    /\ UNCHANGED <<argv, content, lines, impl_domain, impl_range, plots, stdout>>

\* line 12: lines = [line.strip() for line in f.readlines()]
\* readlines() either returns the lines of the file or raises (a decoding
\* or I/O error); in the second case nothing is assigned
ReadLines ==
    /\ pc = "read"
    /\ \/ \E c \in FileContents :
            /\ content' = c
            /\ lines' = [i \in 1..Len(c) |-> Strip(c[i])]
            /\ pc' = "close"
            /\ trace' = Append(trace, "read")
            /\ UNCHANGED err
       \/ /\ pc' = "error"
          /\ err' = "ReadError"
          /\ UNCHANGED <<content, lines, trace>>
    /\ UNCHANGED <<argv, f, impl_domain, impl_range, plots, stdout>>

\* line 13: f.close()
Close ==
    /\ pc = "close"
    /\ f' = "closed"
    /\ pc' = "domain"
    /\ trace' = Append(trace, "close")
    /\ UNCHANGED <<argv, content, lines, impl_domain, impl_range, plots, stdout, err>>

\* line 16: impl_domain = [float(x.split(" ")[0]) for x in lines[1:]]
BuildDomain ==
    /\ pc = "domain"
    /\ LET col == Column(lines, DomainIndex)
       IN  IF col.ok
           THEN /\ impl_domain' = col.vals
                /\ pc' = "rangeA"
                /\ trace' = Append(trace, "domain")
                /\ UNCHANGED err
           ELSE /\ pc' = "error"
                /\ err' = col.err
                /\ UNCHANGED <<impl_domain, trace>>
    /\ UNCHANGED <<argv, f, content, lines, impl_range, plots, stdout>>

\* line 17: impl_range = [float(x.split(" ")[1]) for x in lines[1:]]
BuildRangeA ==
    /\ pc = "rangeA"
    /\ LET col == Column(lines, RangeAIndex)
       IN  IF col.ok
           THEN /\ impl_range' = col.vals
                /\ pc' = "plotA"
                /\ trace' = Append(trace, "rangeA")
                /\ UNCHANGED err
           ELSE /\ pc' = "error"
                /\ err' = col.err
                /\ UNCHANGED <<impl_range, trace>>
    /\ UNCHANGED <<argv, f, content, lines, impl_domain, plots, stdout>>

\* plt.plot(x, y, '-') raises when the two series differ in length
PlotRejectsEmpty(x, y) == Len(x) # Len(y) \/ x = <<>>
PlotRejects(x, y) == Len(x) # Len(y)

\* line 18: plt.plot(impl_domain, impl_range, '-')
PlotA ==
    /\ pc = "plotA"
    /\ IF PlotRejects(impl_domain, impl_range)
       THEN /\ pc' = "error"
            /\ err' = "PlotError"
            /\ UNCHANGED <<plots, trace>>
       ELSE /\ plots' = Append(plots, [x |-> impl_domain, y |-> impl_range])
            /\ pc' = "rangeB"
            /\ trace' = Append(trace, "plotA")
            /\ UNCHANGED err
    /\ UNCHANGED <<argv, f, content, lines, impl_domain, impl_range, stdout>>

\* line 19: impl_range = [float(x.split(" ")[2]) for x in lines[1:]]
BuildRangeB ==
    /\ pc = "rangeB"
    /\ LET col == Column(lines, RangeBIndex)
       IN  IF col.ok
           THEN /\ impl_range' = col.vals
                /\ pc' = "plotB"
                /\ trace' = Append(trace, "rangeB")
                /\ UNCHANGED err
           ELSE /\ pc' = "error"
                /\ err' = col.err
                /\ UNCHANGED <<impl_range, trace>>
    /\ UNCHANGED <<argv, f, content, lines, impl_domain, plots, stdout>>

\* line 20: plt.plot(impl_domain, impl_range, '-')
PlotB ==
    /\ pc = "plotB"
    /\ IF PlotRejects(impl_domain, impl_range)
       THEN /\ pc' = "error"
            /\ err' = "PlotError"
            /\ UNCHANGED <<plots, trace>>
       ELSE /\ plots' = Append(plots, [x |-> impl_domain, y |-> impl_range])
            /\ pc' = "show"
            /\ trace' = Append(trace, "plotB")
            /\ UNCHANGED err
    /\ UNCHANGED <<argv, f, content, lines, impl_domain, impl_range, stdout>>

\* line 21: plt.show() opens the window and blocks the script
ShowNoBlock ==
    /\ pc = "show"
    /\ pc' = "done"
    /\ trace' = Append(trace, "show")
    /\ UNCHANGED <<argv, f, content, lines, impl_domain, impl_range, plots, stdout, err>>
Show ==
    /\ pc = "show"
    /\ pc' = "showing"
    /\ trace' = Append(trace, "show")
    /\ UNCHANGED <<argv, f, content, lines, impl_domain, impl_range, plots, stdout, err>>

\* line 21: the user dismisses the window, show() returns and, being the
\* last statement, the script ends
Dismiss ==
    /\ pc = "showing"
    /\ pc' = "done"
    /\ trace' = Append(trace, "exit")
    /\ UNCHANGED <<argv, f, content, lines, impl_domain, impl_range, plots, stdout, err>>

Next ==
    \/ CheckArgs
    \/ Open
    \/ ReadLines
    \/ Close
    \/ BuildDomain
    \/ BuildRangeA
    \/ PlotA
    \/ BuildRangeB
    \/ PlotB
    \/ Show
    \/ Dismiss

Spec == Init /\ [][Next]_vars

----------------------------------------------------------------------------
(* Vocabulary of the properties *)

\* the statement named e has completed
Did(e) == \E i \in 1..Len(trace) : trace[i] = e

IsPrefix(s, t) == Len(s) <= Len(t) /\ s = SubSeq(t, 1, Len(s))

ParseErrors == {"ValueError", "IndexError"}
AccessErrors == {"FileNotFoundError", "PermissionError"}
Terminal == {"usage_exit", "error", "done"}

NoColumn == impl_domain = <<>> /\ impl_range = <<>> /\ ~Did("domain")
NoPlot == plots = <<>> /\ ~Did("plotA") /\ ~Did("plotB") /\ ~Did("show")

EmptyCurve == [x |-> <<>>, y |-> <<>>]

\* tokens of a line when any run of whitespace separates
RECURSIVE WsTokens(_)
WsTokens(s) ==
    LET t == LStrip(s)
    IN  IF t = <<>> THEN <<>>
        ELSE LET n == CHOOSE m \in 1..Len(t) :
                          /\ \A i \in 1..m : t[i] \notin Whitespace
                          /\ (m = Len(t) \/ t[m + 1] \in Whitespace)
             IN  <<SubSeq(t, 1, n)>> \o WsTokens(SubSeq(t, n + 1, Len(t)))

\* a raw line with three leading numeric tokens, tokens cut at single spaces
WellFormed(raw) ==
    LET toks == Split(Strip(raw))
    IN  Len(toks) >= 3 /\ \A k \in 1..3 : Float(toks[k]).ok

\* the same, tokens separated by any whitespace
WsWellFormed(raw) ==
    LET toks == WsTokens(raw)
    IN  Len(toks) >= 3 /\ \A k \in 1..3 : Float(toks[k]).ok

Malformed(raw) == ~WellFormed(raw) \/ ~WsWellFormed(raw)

\* value of the k-th whitespace-separated token of the (i+1)-th line
Token(i, k) == Float(WsTokens(content[i + 1])[k]).val

----------------------------------------------------------------------------
(* C1 *)

\* C1: when the number of positional arguments is not exactly one, the run
\* prints the usage message (program name, '<filename>'), stops in a clean
\* terminal state, and never opens a file, parses a column, plots or shows;
\* with exactly one positional argument no usage message is printed and the
\* run goes on to open the path named by that argument.
C1_UsageExit ==
    /\ (Len(argv) - 1 # 1 /\ pc # "args") =>
          /\ pc = "usage_exit"
          /\ stdout = << <<"usage:", argv[1], "<filename>">> >>
          /\ err = "none"
          /\ ~ENABLED Next
          /\ f = "none" /\ ~Did("open") /\ content = <<>> /\ lines = <<>>
          /\ NoColumn /\ NoPlot
    /\ (Len(argv) - 1 = 1) =>
          /\ stdout = <<>> /\ ~Did("usage") /\ pc # "usage_exit"
          /\ pc # "args" =>
                \/ pc = "open"
                \/ Did("open") /\ OpenError(argv[2]) = "none"
                \/ pc = "error" /\ err \in AccessErrors /\ err = OpenError(argv[2])

C1_Witness == pc = "usage_exit" /\ Len(argv) = 3

----------------------------------------------------------------------------
(* C2 *)

\* C2: once the three columns are built from a file of n >= 1 lines, each
\* has n - 1 elements, the i-th element of each comes from line i + 1 of the
\* file, every plotted curve has n - 1 points, and the header line is never
\* parsed: a parse error is always due to a line after the first.
C2_ReaderResult ==
    /\ (Did("rangeB") /\ Len(content) >= 1) =>
          /\ Len(impl_domain) = Len(content) - 1
          /\ Len(plots[1].y) = Len(content) - 1
          /\ Len(impl_range) = Len(content) - 1
          /\ \A i \in 1..(Len(content) - 1) :
                /\ Len(WsTokens(content[i + 1])) >= 3
                /\ impl_domain[i] = Token(i, 1)
                /\ plots[1].y[i] = Token(i, 2)
                /\ impl_range[i] = Token(i, 3)
    /\ Len(content) >= 1 =>
          \A k \in 1..Len(plots) :
              Len(plots[k].x) = Len(content) - 1 /\ Len(plots[k].y) = Len(content) - 1
    /\ (pc = "error" /\ err \in ParseErrors) =>
          \E i \in 2..Len(content) : ~WellFormed(content[i])

C2_Witness ==
    /\ Did("plotB") /\ Len(content) = 3
    /\ ~WellFormed(content[1])
    /\ impl_domain # <<>>

----------------------------------------------------------------------------
(* C3 *)

\* C3: on every data line the first token is the x-value of both plot
\* calls (both receive the same domain sequence), the second token is the
\* y-value of the first curve and the third token the y-value of the second.
C3_ColumnOrder ==
    /\ \A k \in 1..Len(plots) : \A i \in 1..Len(plots[k].x) :
          /\ Len(WsTokens(content[i + 1])) >= k + 1
          /\ plots[k].x[i] = Token(i, 1)
          /\ plots[k].y[i] = Token(i, k + 1)
    /\ Len(plots) = 2 => plots[1].x = plots[2].x

C3_Witness ==
    /\ Len(plots) = 2
    /\ plots[1] = [x |-> <<0, 1>>, y |-> <<1, 2>>]
    /\ plots[2] = [x |-> <<0, 1>>, y |-> <<2, 4>>]

----------------------------------------------------------------------------
(* C4 *)

\* first column (1, 2 or 3) in which some data line fails to parse, 0 if none
FirstBadColumn ==
    IF \E k \in 1..3 : ~Column(lines, k).ok
    THEN CHOOSE k \in 1..3 :
            ~Column(lines, k).ok /\ \A j \in 1..(k - 1) : Column(lines, j).ok
    ELSE 0

SomeDataLineMalformed ==
    Did("read") /\ \E i \in 2..Len(content) : Malformed(content[i])

----------------------------------------------------------------------------
(* C5 *)

ProgramOrder ==
    <<"open", "read", "close", "domain", "rangeA", "plotA",
      "rangeB", "plotB", "show", "exit">>

Count(e) == Cardinality({i \in 1..Len(trace) : trace[i] = e})

----------------------------------------------------------------------------
(* C6 *)

\* C6: once the file has been opened, the handle is closed after the read
\* and before any column is parsed, and in no terminal state is it left open.
C6_HandleReleased ==
    /\ Did("domain") => f = "closed"
    /\ (pc \in {"domain", "rangeA", "plotA", "rangeB", "plotB", "show", "showing"})
          => f = "closed"
    /\ pc \in Terminal => f # "open"

----------------------------------------------------------------------------
(* C7 *)

\* C7: a data line whose first three numeric tokens are separated by any
\* whitespace (one space, several spaces, tabs) parses to those three values,
\* and tokens after the third are ignored even when they are not numeric.
C7_Tokenisation ==
    (Did("read") /\ \A i \in 2..Len(content) : WsWellFormed(content[i])) =>
        /\ ~(pc = "error" /\ err \in ParseErrors)
        /\ Did("rangeB") =>
              \A i \in 1..(Len(content) - 1) :
                  /\ impl_domain[i] = Token(i, 1)
                  /\ plots[1].y[i] = Token(i, 2)
                  /\ impl_range[i] = Token(i, 3)

----------------------------------------------------------------------------
(* C8 *)

\* C8: for a file of exactly one line no parse error or plot error is
\* raised, the columns built are empty, every plot call receives empty
\* series, and the run goes on to show and a normal exit.
C8_HeaderOnly ==
    (Did("read") /\ Len(content) = 1) =>
        /\ pc # "error" /\ err = "none"
        /\ impl_domain = <<>> /\ impl_range = <<>>
        /\ \A k \in 1..Len(plots) : plots[k] = EmptyCurve
        /\ pc \notin Terminal => ENABLED Next
        /\ pc = "done" => (Len(plots) = 2 /\ Did("show"))

C8_Witness ==
    /\ pc = "done" /\ Len(content) = 1
    /\ plots = <<EmptyCurve, EmptyCurve>>
    /\ ~WellFormed(content[1])

----------------------------------------------------------------------------
(* C9 *)

\* C9: with exactly one positional argument naming a missing or unreadable
\* path, the run ends in a file-access error state (not the usage exit) from
\* which nothing more happens: no retry, no column parsed, no plot, no show.
C9_FileAccessError ==
    (Len(argv) = 2 /\ argv[2] \notin Readable /\ pc \notin {"args", "open"}) =>
        /\ pc = "error" /\ err \in AccessErrors
        /\ argv[2] \in Existing <=> err = "PermissionError"
        /\ ~ENABLED Next
        /\ f = "none" /\ ~Did("open") /\ ~Did("read")
        /\ stdout = <<>>
        /\ NoColumn /\ NoPlot

C9_Witness == pc = "error" /\ err = "FileNotFoundError" /\ argv[2] = "missing.txt"

----------------------------------------------------------------------------
(* C10 *)

\* C10: a readable file with no line at all is treated as a header-only
\* file: no error is raised, the columns built are empty, both plot calls
\* receive empty series and the run goes on to show and a normal exit.
C10_EmptyFile ==
    (Did("read") /\ content = <<>>) =>
        /\ pc # "error" /\ err = "none"
        /\ lines = <<>> /\ impl_domain = <<>> /\ impl_range = <<>>
        /\ \A k \in 1..Len(plots) : plots[k] = EmptyCurve
        /\ pc \notin Terminal => ENABLED Next
        /\ pc = "done" => (plots = <<EmptyCurve, EmptyCurve>> /\ trace = ProgramOrder)

C10_Witness ==
    /\ pc = "done" /\ Did("read") /\ content = <<>>
    /\ plots = <<EmptyCurve, EmptyCurve>>

====
